---- MODULE Spec2Model ----
(***************************************************************************)
(* go-pizza-tracker: the order data model (internal/models/order.go), the  *)
(* order repository (CreateOrder / GetOrder) and the two HTTP handlers     *)
(* that use it (cmd/customer.go: HandleNewOrder, serveCustomer).           *)
(*                                                                         *)
(* The store is the five tables AutoMigrate creates.  CreateOrder is       *)
(* gorm's DB.Create on an Order with nested has-many associations: one     *)
(* default transaction, the header insert, then one batched insert per     *)
(* association table, every row passing through its BeforeCreate hook      *)
(* first.  GetOrder is First + three nested Preloads.                      *)
(*                                                                         *)
(* Go slices are 0-based; sequences here are 1-based, so Go's s[i] is      *)
(* s[i + 1].                                                               *)
(***************************************************************************)
EXTENDS Integers, Sequences, FiniteSets, TLC

(***************************************************************************)
(* Bounds of the model.                                                    *)
(***************************************************************************)
MaxClock == 1
MaxItems == 2

\* The goroutines of the HTTP server, one per request: two that serve a
\* POST /new-order each and one that serves a GET /customer/:id.
OrderHandlers == { "h1", "h2" }

StatusHandlers == { "s1" }

Procs == OrderHandlers \cup StatusHandlers

(***************************************************************************)
(* Reference tables, internal/models/order.go.                             *)
(***************************************************************************)
OrderStatusPlaced == "Order Placed"
OrderStatusPreparing == "Preparing"
OrderStatusCooking == "Cooking"
OrderStatusQualityCheck == "Quality Check"
OrderStatusReady == "Ready"

OrderStatuses ==
  << OrderStatusPlaced, OrderStatusPreparing, OrderStatusCooking,
     OrderStatusQualityCheck, OrderStatusReady >>

PizzaTypes ==
  << "Margherita", "Pepperoni", "Vegetarian", "Hawaiian", "BBQ Chicken",
     "Meat Lovers", "Buffalo Chicken", "Supreme", "Truffle Mushroom",
     "Four Cheese", "Vegan Pizza", "Vegan Meat Lovers", "Vegan Garden",
     "Make Your Own", "Garlic" >>

PizzaCrust == << "Thin", "Regular", "Deep Dish", "Cheesy Crust", "Vegan Cheesy Crust" >>

PizzaSizes == << "Small", "Medium", "Large", "X-Large", "Family" >>

ToppingCategories ==
  [ Meats |-> << "Pepperoni", "Sausage", "Chicken", "Bacon", "Ham", "Mince", "Anchovies" >>,
    VeganMeats |-> << "Vegan Pepperoni", "Vegan Chicken", "Vegan Bacon", "Vegan Ham",
                      "Vegan Mince" >>,
    Vegetables |-> << "Mushroom", "Red Onion", "White Onion", "Capsicum", "Zucchini",
                      "Olives", "Jalapenos", "Pumpkin", "Spinach", "Pineapple",
                      "Tomatoes", "Basil", "Corn", "Rocket", "Garlic Slices" >>,
    Cheeses |-> << "Mozzarella", "Extra Cheese", "Vegan Cheese", "Parmesan", "Gorgonzola",
                   "Ricotta", "Feta" >>,
    Sauces |-> << "Tomato Sauce", "BBQ Sauce", "Buffalo Sauce", "Garlic Oil", "Truffle Oil",
                  "Pesto" >> ]

PizzaDefaultToppings ==
  ( "Margherita" :> << "Tomato Sauce", "Mozzarella", "Tomatoes", "Basil" >> ) @@
  ( "Pepperoni" :> << "Tomato Sauce", "Mozzarella", "Pepperoni" >> ) @@
  ( "Vegetarian" :> << "Tomato Sauce", "Mozzarella", "Mushroom", "Capsicum", "Red Onion",
                       "Olives", "Zucchini" >> ) @@
  ( "Hawaiian" :> << "Tomato Sauce", "Mozzarella", "Ham", "Pineapple" >> ) @@
  ( "BBQ Chicken" :> << "BBQ Sauce", "Mozzarella", "Chicken", "Red Onion", "Capsicum",
                        "Bacon" >> ) @@
  ( "Meat Lovers" :> << "Tomato Sauce", "Mozzarella", "Pepperoni", "Sausage", "Bacon", "Ham",
                        "Mince" >> ) @@
  ( "Buffalo Chicken" :> << "Buffalo Sauce", "Mozzarella", "Chicken", "Red Onion",
                            "Jalapenos" >> ) @@
  ( "Supreme" :> << "Tomato Sauce", "Mozzarella", "Pepperoni", "Sausage", "Mushroom",
                    "Capsicum", "Red Onion", "Olives" >> ) @@
  ( "Truffle Mushroom" :> << "Truffle Oil", "Mozzarella", "Mushroom", "Garlic Oil",
                             "Rocket" >> ) @@
  ( "Four Cheese" :> << "Tomato Sauce", "Mozzarella", "Parmesan", "Gorgonzola", "Ricotta" >> ) @@
  ( "Vegan Pizza" :> << "Tomato Sauce", "Vegan Cheese", "White Onion", "Basil", "Capsicum",
                        "Garlic Slices", "Corn", "Zucchini" >> ) @@
  ( "Vegan Meat Lovers" :> << "BBQ Sauce", "Vegan Cheese", "White Onion", "Vegan Ham",
                              "Vegan Mince", "Vegan Chicken", "Vegan Bacon",
                              "Vegan Pepperoni" >> ) @@
  ( "Vegan Garden" :> << "Pesto", "Vegan Cheese", "Red Onion", "Mushroom", "Pumpkin",
                         "Capsicum", "Zucchini", "Spinach", "Corn", "Basil", "Rocket" >> ) @@
  ( "Garlic" :> << "Garlic", "Mozzarella", "Garlic Oil" >> ) @@
  ( "Make Your Own" :> << >> )

DietaryRequirements ==
  << "Vegetarian", "Vegan", "Gluten-Free", "Dairy-Free", "Nut-Free", "Halal", "Kosher" >>

Allergies ==
  << "Gluten", "Dairy", "Nuts", "Peanuts", "Shellfish", "Soy", "Eggs", "Fish", "Sesame" >>

(***************************************************************************)
(* Helpers over sequences.                                                 *)
(***************************************************************************)
Range(s) == { s[k] : k \in 1..Len(s) }

\* slices.Contains
Contains(s, v) == v \in Range(s)

\* Go's map lookup: the zero value (a nil slice) for a missing key.
DefaultToppingsOf(pizza) ==
  IF pizza \in DOMAIN PizzaDefaultToppings THEN PizzaDefaultToppings[pizza] ELSE << >>

\* The labels the topping validator accepts: a member of any category list.
ValidTopping(topping) ==
  \E cat \in DOMAIN ToppingCategories : Contains(ToppingCategories[cat], topping)

(***************************************************************************)
(* The submitted form, cmd/customer.go OrderRequest.  A form is a record   *)
(*   [Name, Phone, Address, Sizes, PizzaTypes, Crusts, Instructions,       *)
(*    Toppings, DietaryRequirements, Allergies].                           *)
(* One entry of Toppings is a string such as "0:Basil"; it is written here *)
(* as the sequence of its pieces, << "0", ":", "Basil" >>: one piece per   *)
(* character of the index part, ":" for a colon, and the words of the      *)
(* name.  The pieces of a part are joined back into the Go string.         *)
(***************************************************************************)
DigitVal ==
  ( "0" :> 0 ) @@ ( "1" :> 1 ) @@ ( "2" :> 2 ) @@ ( "3" :> 3 ) @@ ( "4" :> 4 ) @@
  ( "5" :> 5 ) @@ ( "6" :> 6 ) @@ ( "7" :> 7 ) @@ ( "8" :> 8 ) @@ ( "9" :> 9 )

RECURSIVE Join(_)
Join(pieces) ==
  IF pieces = << >> THEN "" ELSE Head(pieces) \o Join(Tail(pieces))

\* Position of the first ":" of an entry, 0 when it has none.
FirstColon(entry) ==
  IF \E k \in 1..Len(entry) : entry[k] = ":"
    THEN CHOOSE k \in 1..Len(entry) :
           entry[k] = ":" /\ \A j \in 1..(k - 1) : entry[j] # ":"
    ELSE 0

\* strings.SplitN(t, ":", 2): one part without a colon, else the text before
\* the first colon and everything after it (later colons included).
SplitN2(entry) ==
  LET k == FirstColon(entry) IN
    IF k = 0 THEN << entry >>
    ELSE << SubSeq(entry, 1, k - 1), SubSeq(entry, k + 1, Len(entry)) >>

RECURSIVE DigitsValue(_)
DigitsValue(ds) ==
  IF ds = << >> THEN 0
  ELSE 10 * DigitsValue(SubSeq(ds, 1, Len(ds) - 1)) + DigitVal[ds[Len(ds)]]

\* strconv.Atoi: an optional sign and at least one decimal digit.
Atoi(part) ==
  LET signed == part # << >> /\ part[1] \in { "+", "-" }
      ds == IF signed THEN Tail(part) ELSE part
  IN IF ds # << >> /\ \A k \in 1..Len(ds) : ds[k] \in DOMAIN DigitVal
       THEN [ ok |-> TRUE,
              val |-> IF signed /\ part[1] = "-" THEN 0 - DigitsValue(ds)
                      ELSE DigitsValue(ds) ]
       ELSE [ ok |-> FALSE, val |-> 0 ]

\* One pass of the parsing loop of HandleNewOrder: the entries that survive
\* both `continue`s, as [index, topping], in request order.
RECURSIVE ParsedToppings(_)
ParsedToppings(entries) ==
  IF entries = << >> THEN << >>
  ELSE LET parts == SplitN2(Head(entries))
           rest == ParsedToppings(Tail(entries))
       IN IF Len(parts) # 2 THEN rest
          ELSE IF ~Atoi(parts[1]).ok THEN rest
          ELSE << [ index |-> Atoi(parts[1]).val, topping |-> Join(parts[2]) ] >> \o rest

RECURSIVE ToppingsOfAll(_, _)
ToppingsOfAll(parsed, i) ==
  IF parsed = << >> THEN << >>
  ELSE << Head(parsed).topping >> \o ToppingsOfAll(Tail(parsed), i)

\* toppingsMap[index] after the loop: the toppings appended under index.
RECURSIVE ToppingsAt(_, _)
ToppingsAt(parsed, i) ==
  IF parsed = << >> THEN << >>
  ELSE ( IF Head(parsed).index = i THEN << Head(parsed).topping >> ELSE << >> )
       \o ToppingsAt(Tail(parsed), i)

\* toppingsMap: index -> the toppings appended under it, in request order; a
\* missing key reads as the nil slice.
toppingsMap(form) ==
  LET parsed == ParsedToppings(form.Toppings)
      keys == { parsed[k].index : k \in 1..Len(parsed) }
  IN [ i \in keys |-> ToppingsAt(parsed, i) ]

MapGet(m, i) == IF i \in DOMAIN m THEN m[i] ELSE << >>

(***************************************************************************)
(* Binding and validation, c.ShouldBind(&form) with the binding tags of    *)
(* OrderRequest and the validators RegisterCustomValidators registers.     *)
(* Crusts, Instructions, Toppings, DietaryRequirements and Allergies carry *)
(* no binding tag, so nothing is checked of them.                          *)
(***************************************************************************)
valid_pizza_size_overwritten(v) == Contains(Allergies, v)

\* The function registered under "valid_pizza_size".
valid_pizza_size(v) == Contains(PizzaSizes, v)

valid_pizza_type(v) == Contains(PizzaTypes, v)

NameMin == 2
NameMax == 100
PhoneMin == 9
PhoneMax == 20
AddressMin == 5
AddressMax == 200

ShouldBindSizesOptional(form) ==
  /\ form.Name # "" /\ Len(form.Name) >= NameMin /\ Len(form.Name) <= NameMax
  /\ form.Phone # "" /\ Len(form.Phone) >= PhoneMin /\ Len(form.Phone) <= PhoneMax
  /\ form.Address # "" /\ Len(form.Address) >= AddressMin /\ Len(form.Address) <= AddressMax
  /\ \A k \in 1..Len(form.Sizes) : valid_pizza_size(form.Sizes[k])
  /\ Len(form.PizzaTypes) >= 1
  /\ \A k \in 1..Len(form.PizzaTypes) : valid_pizza_type(form.PizzaTypes[k])

\* The binding tags: required with min and max on the three strings,
\* required, min=1 and a dive into the elements on Sizes and PizzaTypes.
ShouldBind(form) ==
  /\ form.Name # "" /\ Len(form.Name) >= NameMin /\ Len(form.Name) <= NameMax
  /\ form.Phone # "" /\ Len(form.Phone) >= PhoneMin /\ Len(form.Phone) <= PhoneMax
  /\ form.Address # "" /\ Len(form.Address) >= AddressMin /\ Len(form.Address) <= AddressMax
  /\ Len(form.Sizes) >= 1
  /\ \A k \in 1..Len(form.Sizes) : valid_pizza_size(form.Sizes[k])
  /\ Len(form.PizzaTypes) >= 1
  /\ \A k \in 1..Len(form.PizzaTypes) : valid_pizza_type(form.PizzaTypes[k])

(***************************************************************************)
(* The order graph HandleNewOrder builds.  Identifiers are the empty       *)
(* string (NoId) until a BeforeCreate hook sets them.                      *)
(***************************************************************************)
NoId == ""

IsExtraNever(topping, defaultToppings) == FALSE

\* isExtra of one topping: true unless some default equals it.
IsExtra(topping, defaultToppings) == ~Contains(defaultToppings, topping)

NewTopping(topping, defaultToppings) ==
  [ ID |-> NoId, OrderItemID |-> NoId, Topping |-> topping,
    IsExtra |-> IsExtra(topping, defaultToppings) ]

NewDietary(dietary) ==
  [ ID |-> NoId, OrderItemID |-> NoId, DietaryRequirement |-> dietary ]

NewAllergy(allergy) ==
  [ ID |-> NoId, OrderItemID |-> NoId, Allergy |-> allergy ]

pizzaToppingsNoDefaults(form, tmap, i) == MapGet(tmap, i)

\* The topping selection of item i (Go index): the map entry, or the defaults
\* of the pizza type when the entry is empty or missing.
pizzaToppings(form, tmap, i) ==
  IF Len(MapGet(tmap, i)) = 0
    THEN DefaultToppingsOf(form.PizzaTypes[i + 1])
    ELSE MapGet(tmap, i)

\* One iteration of the loop over orderItems, for Go index i.
BuildItem(form, tmap, i) ==
  LET crust == IF i < Len(form.Crusts) /\ form.Crusts[i + 1] # ""
                 THEN form.Crusts[i + 1] ELSE "Regular"
      instruction == IF i < Len(form.Instructions) THEN form.Instructions[i + 1] ELSE ""
      sel == pizzaToppings(form, tmap, i)
      defaultToppings == DefaultToppingsOf(form.PizzaTypes[i + 1])
  IN [ ID |-> NoId,
       OrderID |-> NoId,
       Size |-> form.Sizes[i + 1],
       Pizza |-> form.PizzaTypes[i + 1],
       Crust |-> crust,
       Instructions |-> instruction,
       Toppings |-> [ k \in 1..Len(sel) |-> NewTopping(sel[k], defaultToppings) ],
       DietaryRequirement |->
         [ k \in 1..Len(form.DietaryRequirements) |-> NewDietary(form.DietaryRequirements[k]) ],
       Allergies |-> [ k \in 1..Len(form.Allergies) |-> NewAllergy(form.Allergies[k]) ] ]

\* form.PizzaTypes[i] with i >= len(form.PizzaTypes): the loop runs over
\* len(form.Sizes) items, so a shorter type list is an index out of range.
BuildPanics(form) == Len(form.Sizes) > Len(form.PizzaTypes)

BuildOrder(form) ==
  [ ID |-> NoId,
    Status |-> OrderStatusPlaced,
    CustomerName |-> form.Name,
    Phone |-> form.Phone,
    Address |-> form.Address,
    Items |-> [ k \in 1..Len(form.Sizes) |-> BuildItem(form, toppingsMap(form), k - 1) ] ]

(***************************************************************************)
(* Identifiers: shortid.MustGenerate() on the process-wide default         *)
(* generator.  Under its mutex the generator reads the clock in            *)
(* milliseconds; in the millisecond of the previous call it increments its *)
(* counter, in a new one it resets the counter to 0.  The identifier       *)
(* encodes the millisecond, the worker number and, when it is not 0, the   *)
(* counter.  The default generator is worker 0.                           *)
(***************************************************************************)
getMsAndCounter(s, ms) ==
  IF ms = s.ms THEN [ ms |-> ms, count |-> s.count + 1 ]
  ELSE [ ms |-> ms, count |-> 0 ]

NewIdNoCounter(s) == "t" \o ToString(s.ms) \o "w0"

\* The identifier for generator state s (after getMsAndCounter).
NewId(s) ==
  "t" \o ToString(s.ms) \o "w0"
      \o ( IF s.count > 0 THEN "c" \o ToString(s.count) ELSE "" )

\* The five BeforeCreate hooks: set the identifier only when it is empty.
BeforeCreate(row, id) ==
  IF row.ID = NoId THEN [ row EXCEPT !.ID = id ] ELSE row

(***************************************************************************)
(* The store: the tables of Order, OrderItem, OrderItemTopping,            *)
(* OrderItemDietaryRequirement and OrderItemAllergy, each a sequence of    *)
(* rows in insertion (rowid) order.  A row has the columns of its struct;  *)
(* the slice fields are associations, not columns.                         *)
(***************************************************************************)
Tables == { "orders", "items", "dietary", "toppings", "allergies" }

EmptyTables == [ t \in Tables |-> << >> ]

OrderRowNoStatus(o, createdAt) ==
  [ ID |-> o.ID, Status |-> "", CustomerName |-> o.CustomerName,
    Phone |-> o.Phone, Address |-> o.Address, CreatedAt |-> createdAt ]

\* The columns of Order.
OrderRow(o, createdAt) ==
  [ ID |-> o.ID, Status |-> o.Status, CustomerName |-> o.CustomerName,
    Phone |-> o.Phone, Address |-> o.Address, CreatedAt |-> createdAt ]

\* The columns of OrderItem: ID, OrderID, Size, Pizza, Instructions.
OrderItemRow(it) ==
  [ ID |-> it.ID, OrderID |-> it.OrderID, Size |-> it.Size, Pizza |-> it.Pizza,
    Instructions |-> it.Instructions ]

RECURSIVE Flatten(_)
Flatten(ss) == IF ss = << >> THEN << >> ELSE Head(ss) \o Flatten(Tail(ss))

ChildRowsFirstItem(itemRows, itemsBuilt, field) ==
  Flatten([ i \in 1..Len(itemsBuilt) |->
            [ k \in 1..Len(itemsBuilt[i][field]) |->
              [ itemsBuilt[i][field][k] EXCEPT !.OrderItemID = itemRows[1].ID ] ] ])

\* The rows of one association across all items, item by item, each with
\* the foreign key of its (already inserted) item.
ChildRows(itemRows, itemsBuilt, field) ==
  Flatten([ i \in 1..Len(itemsBuilt) |->
            [ k \in 1..Len(itemsBuilt[i][field]) |->
              [ itemsBuilt[i][field][k] EXCEPT !.OrderItemID = itemRows[i].ID ] ] ])

AppendTables(dbv, txv) == [ t \in Tables |-> dbv[t] \o txv[t] ]

RollbackKeepsRows(dbv, txv) == AppendTables(dbv, txv)

\* The default transaction of DB.Create ends in a rollback on any error:
\* none of the call's pending rows reaches the tables.
Rollback(dbv, txv) == dbv

\* The commit of the default transaction: all pending rows at once.
CommitTx(dbv, txv) == AppendTables(dbv, txv)

(***************************************************************************)
(* GetOrder: First(&order, "id = ?", id) with Preload of Items.Toppings,   *)
(* Items.DietaryRequirement and Items.Allergies.  It returns &order and    *)
(* the error; on an error the order is whatever had been filled in.        *)
(***************************************************************************)
ErrNil == "nil"
ErrRecordNotFound == "record not found"
ErrStorage == "storage failure"

ZeroOrder ==
  [ ID |-> "", Status |-> "", CustomerName |-> "", Phone |-> "", Address |-> "",
    CreatedAt |-> 0, Items |-> << >> ]

RowsWhereNewestFirst(rows, col, v) ==
  LET hit == SelectSeq(rows, LAMBDA r : r[col] = v)
  IN [ k \in 1..Len(hit) |-> hit[Len(hit) + 1 - k] ]

\* The rows with r[col] = v, in the order of `rows`.  No query of GetOrder
\* has an ORDER BY over several rows; SQLite returns the rows of one key in
\* rowid order, from the table as from the index on the foreign key.
RowsWhere(rows, col, v) == SelectSeq(rows, LAMBDA r : r[col] = v)

PreloadNone(dbv, table, itemIds) == << >>

\* One nested Preload: a single query for the rows of `table` whose
\* order_item_id is IN the identifiers of all the items loaded.
Preload(dbv, table, itemIds) ==
  SelectSeq(dbv[table], LAMBDA r : r.OrderItemID \in itemIds)

PreloadQueriesPerItem(itemRows) ==
  Flatten([ k \in 1..Len(itemRows) |-> << "toppings", "dietary", "allergies" >> ])

\* The queries of the three nested Preloads: one each, and none when there
\* is no item to load rows for.
PreloadQueries(itemRows) ==
  IF itemRows = << >> THEN << >> ELSE << "toppings", "dietary", "allergies" >>

\* gorm hands every preloaded row to the item its foreign key names, in the
\* order of the query result.
HydrateItem(row, toppingRows, dietaryRows, allergyRows) ==
  [ ID |-> row.ID, OrderID |-> row.OrderID, Size |-> row.Size, Pizza |-> row.Pizza,
    Instructions |-> row.Instructions,
    DietaryRequirement |-> RowsWhere(dietaryRows, "OrderItemID", row.ID),
    Toppings |-> RowsWhere(toppingRows, "OrderItemID", row.ID),
    Allergies |-> RowsWhere(allergyRows, "OrderItemID", row.ID) ]

HeaderOf(row, itemsV) ==
  [ ID |-> row.ID, Status |-> row.Status, CustomerName |-> row.CustomerName,
    Phone |-> row.Phone, Address |-> row.Address, CreatedAt |-> row.CreatedAt,
    Items |-> itemsV ]

\* fault: "none", or the statement at which the storage fails: "first" (the
\* query on orders) or "preload" (the query of the Items preload).
\* queries: the tables queried, one entry per query sent to the store.  The
\* preloads run only after First has found the order.
GetOrder(dbv, id, fault) ==
  LET hits == RowsWhere(dbv.orders, "ID", id)
      itemRows == RowsWhere(dbv.items, "OrderID", id)
      itemIds == { itemRows[k].ID : k \in 1..Len(itemRows) }
      toppingRows == Preload(dbv, "toppings", itemIds)
      dietaryRows == Preload(dbv, "dietary", itemIds)
      allergyRows == Preload(dbv, "allergies", itemIds)
  IN IF fault = "first"
       THEN [ order |-> ZeroOrder, err |-> ErrStorage, queries |-> << "orders" >> ]
     ELSE IF hits = << >>
       THEN [ order |-> ZeroOrder, err |-> ErrRecordNotFound, queries |-> << "orders" >> ]
     ELSE IF fault = "preload"
       THEN [ order |-> HeaderOf(hits[1], << >>), err |-> ErrStorage,
              queries |-> << "orders", "items" >> ]
     ELSE [ order |-> HeaderOf(hits[1],
                               [ k \in 1..Len(itemRows) |->
                                 HydrateItem(itemRows[k], toppingRows, dietaryRows,
                                             allergyRows) ]),
            err |-> ErrNil,
            queries |-> << "orders", "items" >> \o PreloadQueries(itemRows) ]

(***************************************************************************)
(* Requests the model submits.                                             *)
(***************************************************************************)
ValidPhone == "0412345678"
ValidAddress == "1 Main Street"

Form(name, sizes, types, crusts, instructions, tops, dietary, allergies) ==
  [ Name |-> name, Phone |-> ValidPhone, Address |-> ValidAddress,
    Sizes |-> sizes, PizzaTypes |-> types, Crusts |-> crusts,
    Instructions |-> instructions, Toppings |-> tops,
    DietaryRequirements |-> dietary, Allergies |-> allergies ]

\* The forms of the concurrent specification: one item with a selection, a
\* crust and a row in each junction table (labels outside the vocabularies);
\* two items of which the second has a selection; a name that is too short;
\* fewer pizza types than sizes.
Forms ==
  { Form("Al", << "Small" >>, << "Garlic" >>, << "Thin" >>, << "well done" >>,
         << << "0", ":", "Unicorn" >> >>, << "Paleo" >>, << "Nuts" >>),
    Form("Bo", << "Small", "Large" >>, << "Make Your Own", "Make Your Own" >>,
         << "" >>, << >>,
         << << "1", ":", "Basil" >>, << "Basil" >> >>, << >>, << >>),
    Form("D", << "Small" >>, << "Margherita" >>, << >>, << >>, << >>, << >>, << >>),
    Form("Flo", << "Small", "Large" >>, << "Margherita" >>, << >>, << >>, << >>,
         << >>, << >>) }

NoForm == Form("", << >>, << >>, << >>, << >>, << >>, << >>, << >>)

NoOrder == BuildOrder(NoForm)

(***************************************************************************)
(* State.                                                                  *)
(*   pc[p]     where request handler p is: "idle" before its request,      *)
(*             inside CreateOrder at the insert of "orders", "items",      *)
(*             "dietary", "toppings", "allergies" or at "commit", and      *)
(*             "done" once it has responded                                *)
(*   form[p]   the form of p's last order submission                       *)
(*   order[p]  the order graph p's HandleNewOrder built                    *)
(*   batch[p]  the rows of the insert p is at, hooks applied so far        *)
(*   tx[p]     the rows p's open transaction has inserted                  *)
(*   resp[p]   p's last HTTP response                                      *)
(*   db        the committed tables                                        *)
(*   writer    the handler whose transaction holds the write lock of the   *)
(*             SQLite database file, or NoProc                             *)
(*   sid       the shortid generator;  now: the clock, in milliseconds     *)
(*   issued    every identifier generated, in order          (history)     *)
(*   created   [id, order] of every successful CreateOrder   (history)     *)
(*   failed    [id, rows] of every failed CreateOrder        (history)     *)
(***************************************************************************)
VARIABLES pc, form, order, batch, tx, resp, db, writer, sid, now, issued, created, failed

vars == << pc, form, order, batch, tx, resp, db, writer, sid, now, issued, created, failed >>

Stages == << "orders", "items", "dietary", "toppings", "allergies" >>

InTx == Range(Stages) \cup { "commit" }

NoProc == "none"

NoResp ==
  [ handler |-> "", status |-> 0, body |-> "", id |-> NoId, err |-> ErrNil,
    order |-> ZeroOrder, existed |-> FALSE, queries |-> << >> ]

Init ==
  /\ pc = [ p \in Procs |-> "idle" ]
  /\ form = [ p \in Procs |-> NoForm ]
  /\ order = [ p \in Procs |-> NoOrder ]
  /\ batch = [ p \in Procs |-> << >> ]
  /\ tx = [ p \in Procs |-> EmptyTables ]
  /\ resp = [ p \in Procs |-> NoResp ]
  /\ db = EmptyTables
  /\ writer = NoProc
  /\ sid = [ ms |-> 0, count |-> 0 ]
  /\ now = 1
  /\ issued = << >>
  /\ created = { }
  /\ failed = { }

StatusBadRequest == 400
StatusInternalServerError == 500
StatusSeeOther == 303
StatusNotFound == 404
StatusOK == 200

BindAccepts(f) == TRUE

\* The guard of HandleNewOrder's first `if`: the request goes on only when
\* ShouldBind returned no error.
BindOk(f) == ShouldBind(f)

\* POST /new-order up to the call of CreateOrder: bind, parse, build.
\* A bind error answers 400; an index out of range panics, which gin's
\* recovery answers with 500; otherwise CreateOrder starts on the built order.
HandleNewOrder(p, f) ==
  /\ pc[p] = "idle"
  /\ form' = [ form EXCEPT ![p] = f ]
  /\ IF ~BindOk(f)
       THEN /\ resp' = [ resp EXCEPT ![p] =
                           [ NoResp EXCEPT !.handler = "HandleNewOrder",
                                           !.status = StatusBadRequest,
                                           !.body = "error" ] ]
            /\ pc' = [ pc EXCEPT ![p] = "done" ]
            /\ UNCHANGED << order, batch >>
       ELSE IF BuildPanics(f)
       THEN /\ resp' = [ resp EXCEPT ![p] =
                           [ NoResp EXCEPT !.handler = "HandleNewOrder",
                                           !.status = StatusInternalServerError,
                                           !.body = "panic" ] ]
            /\ pc' = [ pc EXCEPT ![p] = "done" ]
            /\ UNCHANGED << order, batch >>
       ELSE /\ order' = [ order EXCEPT ![p] = BuildOrder(f) ]
            /\ batch' = [ batch EXCEPT ![p] = << BuildOrder(f) >> ]
            /\ pc' = [ pc EXCEPT ![p] = "orders" ]
            /\ UNCHANGED resp
  /\ UNCHANGED << tx, db, writer, sid, now, issued, created, failed >>

FirstUnset(rows) == CHOOSE k \in 1..Len(rows) :
                      rows[k].ID = NoId /\ \A j \in 1..(k - 1) : rows[j].ID # NoId

\* gorm calls BeforeCreate on the next row of the batch being created; dt is
\* the time that has passed on the clock since the last identifier.
Hook(p, dt) ==
  /\ pc[p] \in Range(Stages)
  /\ \E k \in 1..Len(batch[p]) : batch[p][k].ID = NoId
  /\ now + dt <= 1 + MaxClock
  /\ now' = now + dt
  /\ LET k == FirstUnset(batch[p])
         s == getMsAndCounter(sid, now')
         id == NewId(s)
     IN /\ sid' = s
        /\ issued' = Append(issued, id)
        /\ batch' = [ batch EXCEPT ![p][k] = BeforeCreate(batch[p][k], id) ]
  /\ UNCHANGED << pc, form, order, tx, resp, db, writer, created, failed >>

\* The batch of the stage after `stage`, given the rows inserted so far.
NextBatch(stage, txv, o) ==
  CASE stage = "orders" ->
         [ k \in 1..Len(o.Items) |-> [ o.Items[k] EXCEPT !.OrderID = txv.orders[1].ID ] ]
    [] stage = "items" -> ChildRows(txv.items, o.Items, "DietaryRequirement")
    [] stage = "dietary" -> ChildRows(txv.items, o.Items, "Toppings")
    [] stage = "toppings" -> ChildRows(txv.items, o.Items, "Allergies")
    [] stage = "allergies" -> << >>

NextStage(stage) ==
  CASE stage = "orders" -> "items"
    [] stage = "items" -> "dietary"
    [] stage = "dietary" -> "toppings"
    [] stage = "toppings" -> "allergies"
    [] stage = "allergies" -> "commit"

\* The rows of a batch as they are written to the table of `stage`.
RowsOf(stage, rows, t) ==
  CASE stage = "orders" -> [ k \in 1..Len(rows) |-> OrderRow(rows[k], t) ]
    [] stage = "items" -> [ k \in 1..Len(rows) |-> OrderItemRow(rows[k]) ]
    [] OTHER -> rows

\* The INSERT of the current batch inside the transaction, after which gorm
\* sets the foreign keys of the next association and goes on to it.  SQLite
\* admits one writing transaction at a time: the first INSERT takes the write
\* lock, which another transaction's INSERT has to wait for (or fail on).
Insert(p) ==
  /\ pc[p] \in Range(Stages)
  /\ \A k \in 1..Len(batch[p]) : batch[p][k].ID # NoId
  /\ writer \in { NoProc, p }
  /\ writer' = p
  /\ LET stage == pc[p]
         txv == [ tx[p] EXCEPT ![stage] = @ \o RowsOf(stage, batch[p], now) ]
     IN /\ tx' = [ tx EXCEPT ![p] = txv ]
        /\ batch' = [ batch EXCEPT ![p] = NextBatch(stage, txv, order[p]) ]
        /\ pc' = [ pc EXCEPT ![p] = NextStage(stage) ]
  /\ UNCHANGED << form, order, resp, db, sid, now, issued, created, failed >>

IdsOf(rows) == { rows[k].ID : k \in 1..Len(rows) } \ { NoId }

TxIds(p) == UNION { IdsOf(tx[p][t]) : t \in Tables }

\* The identifier the open CreateOrder of p has given its order, if any.
TxOrderId(p) ==
  IF tx[p].orders # << >> THEN tx[p].orders[1].ID
  ELSE IF pc[p] = "orders" /\ batch[p] # << >> THEN batch[p][1].ID
  ELSE NoId

\* CreateOrder returns nil: the transaction commits and the handler
\* redirects to /customer/<id>.
Commit(p) ==
  /\ pc[p] = "commit"
  /\ db' = CommitTx(db, tx[p])
  /\ created' = created \cup { [ id |-> TxOrderId(p), order |-> order[p] ] }
  /\ resp' = [ resp EXCEPT ![p] =
                 [ NoResp EXCEPT !.handler = "HandleNewOrder",
                                 !.status = StatusSeeOther,
                                 !.body = "/customer/" \o TxOrderId(p),
                                 !.id = TxOrderId(p) ] ]
  /\ pc' = [ pc EXCEPT ![p] = "done" ]
  /\ tx' = [ tx EXCEPT ![p] = EmptyTables ]
  /\ batch' = [ batch EXCEPT ![p] = << >> ]
  /\ order' = [ order EXCEPT ![p] = NoOrder ]
  /\ writer' = IF writer = p THEN NoProc ELSE writer
  /\ UNCHANGED << form, sid, now, issued, failed >>

\* A storage failure at a statement of CreateOrder (the BEGIN, one of the
\* INSERTs once the hooks of its batch have run, or the COMMIT; connection
\* loss, lock timeout, constraint violation): the transaction is rolled back,
\* CreateOrder returns the error, the handler answers 500.
Fail(p) ==
  /\ pc[p] \in InTx
  /\ \/ pc[p] \in { "orders", "commit" }
     \/ \A k \in 1..Len(batch[p]) : batch[p][k].ID # NoId
  /\ db' = Rollback(db, tx[p])
  /\ failed' = failed \cup { [ id |-> TxOrderId(p), rows |-> TxIds(p) ] }
  /\ resp' = [ resp EXCEPT ![p] =
                 [ NoResp EXCEPT !.handler = "HandleNewOrder",
                                 !.status = StatusInternalServerError,
                                 !.body = "Something went wrong",
                                 !.err = ErrStorage ] ]
  /\ pc' = [ pc EXCEPT ![p] = "done" ]
  /\ tx' = [ tx EXCEPT ![p] = EmptyTables ]
  /\ batch' = [ batch EXCEPT ![p] = << >> ]
  /\ order' = [ order EXCEPT ![p] = NoOrder ]
  /\ writer' = IF writer = p THEN NoProc ELSE writer
  /\ UNCHANGED << form, sid, now, issued, created >>

NeverIssuedId == "zzzzzzzzz"

Faults == { "none", "first", "preload" }

\* GET /customer/:id.  The router only matches a non-empty :id.  Any error
\* of GetOrder answers 404 "Order Not Found".
serveCustomer(p, orderID, fault) ==
  /\ pc[p] = "idle"
  /\ pc' = [ pc EXCEPT ![p] = "done" ]
  /\ LET got == GetOrder(db, orderID, fault)
     IN resp' = [ resp EXCEPT ![p] =
                    IF got.err # ErrNil
                      THEN [ NoResp EXCEPT !.handler = "serveCustomer",
                                           !.status = StatusNotFound,
                                           !.body = "Order Not Found",
                                           !.id = orderID,
                                           !.err = got.err,
                                           !.order = got.order,
                                           !.queries = got.queries,
                                           !.existed = RowsWhere(db.orders, "ID", orderID) # << >> ]
                      ELSE [ NoResp EXCEPT !.handler = "serveCustomer",
                                           !.status = StatusOK,
                                           !.body = "customer.tmpl",
                                           !.id = orderID,
                                           !.order = got.order,
                                           !.queries = got.queries,
                                           !.existed = TRUE ] ]
  /\ UNCHANGED << form, order, batch, tx, db, writer, sid, now, issued, created, failed >>

\* The identifiers a status lookup is tried with: those CreateOrder calls
\* have given their orders, and one that was never generated.
ProbeIds ==
  ( { c.id : c \in created } \cup { c.id : c \in failed } \cup { NeverIssuedId } ) \ { NoId }

Next ==
  \/ \E p \in OrderHandlers, f \in Forms : HandleNewOrder(p, f)
  \/ \E p \in OrderHandlers, dt \in { 0, 1 } : Hook(p, dt)
  \/ \E p \in OrderHandlers : Insert(p)
  \/ \E p \in OrderHandlers : Commit(p)
  \/ \E p \in OrderHandlers : Fail(p)
  \/ \E p \in StatusHandlers, id \in ProbeIds, fault \in Faults :
       serveCustomer(p, id, fault)

Spec == Init /\ [][Next]_vars

(***************************************************************************)
(* HandleNewOrder as a function of the form: one handler, one submission   *)
(* drawn from a wider set of forms, up to the call of CreateOrder.         *)
(***************************************************************************)
RECURSIVE SeqsUpTo(_, _)
SeqsUpTo(S, n) ==
  IF n = 0 THEN { << >> }
  ELSE LET shorter == SeqsUpTo(S, n - 1)
       IN shorter \cup { Append(q, x) : q \in { r \in shorter : Len(r) = n - 1 }, x \in S }

SizeInputs == { "Small", "Huge" }

TypeInputs == { "Margherita", "Pepperoni", "Make Your Own", "Garlic", "Calzone" }

ToppingInputs ==
  { << >>,
    << << "0", ":", "Pepperoni" >> >>,
    << << "0", ":", "Tomato Sauce" >>, << "0", ":", "Mozzarella" >>,
       << "0", ":", "Tomatoes" >>, << "0", ":", "Basil" >>, << "0", ":", "Pepperoni" >> >>,
    << << "Basil" >>, << "x", ":", "Basil" >>, << "7", ":", "Basil" >>,
       << "-", "1", ":", "Basil" >>, << ":", "Basil" >> >>,
    << << "1", ":", "Basil" >>, << "0", ":", "Unicorn" >>, << "1", ":", "Tomato Sauce" >>,
       << "1", ":", "Basil" >> >>,
    << << "0", ":" >>, << "0", "1", ":", "a", ":", "b" >>, << "+", "0", ":", "Mozzarella" >> >>,
    << << "1", ":", "Basil" >>, << "Corn" >>, << "x", ":", "Ham" >>, << "0", ":", "Feta" >>,
       << "5", ":", "Olives" >>, << "1", ":", "Ham" >> >> }

ExtraInputs ==
  { [ Crusts |-> << >>, Instructions |-> << >>, Diet |-> << >>, Allergy |-> << >> ],
    [ Crusts |-> << "Thin" >>, Instructions |-> << "well done" >>,
      Diet |-> << "Vegan", "Paleo" >>, Allergy |-> << "Nuts" >> ],
    [ Crusts |-> << "", "Deep Dish" >>, Instructions |-> << "", "no basil" >>,
      Diet |-> << >>, Allergy |-> << "Gluten", "Gluten" >> ] }

BuildForms ==
  { Form("Al", sizes, types, e.Crusts, e.Instructions, tops, e.Diet, e.Allergy) :
      sizes \in SeqsUpTo(SizeInputs, MaxItems), types \in SeqsUpTo(TypeInputs, MaxItems),
      tops \in ToppingInputs, e \in ExtraInputs }

BuildNext == pc["h1"] = "idle" /\ \E f \in BuildForms : HandleNewOrder("h1", f)

BuildSpec == Init /\ [][BuildNext]_vars

(***************************************************************************)
(* One submission followed from the form to the tables and read back: one  *)
(* order handler and the status handler, the submission drawn from forms   *)
(* over all combinations of sizes and pizza types (in and out of the       *)
(* vocabularies, equal and unequal in number), with and without selections *)
(* and dietary and allergy lists.                                          *)
(***************************************************************************)
SoloSizeInputs == { "Small", "Huge", "Nuts" }

SoloTypeInputs == { "Margherita", "Make Your Own", "Calzone" }

SoloExtraInputs ==
  { [ Toppings |-> << >>, Diet |-> << >>, Allergy |-> << >> ],
    [ Toppings |-> << << "1", ":", "Basil" >>, << "0", ":", "Pepperoni" >>,
                      << "1", ":", "Ham" >>, << "Corn" >>, << "9", ":", "Feta" >> >>,
      Diet |-> << "Vegan", "Halal" >>, Allergy |-> << "Soy", "Eggs" >> ] }

SoloForms ==
  { Form("Al", sizes, types, << >>, << >>, e.Toppings, e.Diet, e.Allergy) :
      sizes \in SeqsUpTo(SoloSizeInputs, MaxItems),
      types \in SeqsUpTo(SoloTypeInputs, MaxItems),
      e \in SoloExtraInputs }

SoloNext ==
  \/ pc["h1"] = "idle" /\ \E f \in SoloForms : HandleNewOrder("h1", f)
  \/ \E dt \in { 0, 1 } : Hook("h1", dt)
  \/ Insert("h1")
  \/ Commit("h1")
  \/ Fail("h1")
  \/ \E id \in ProbeIds, fault \in Faults : serveCustomer("s1", id, fault)

SoloSpec == Init /\ [][SoloNext]_vars

(***************************************************************************)
(* Two concurrent creations of orders with several rows in every table,    *)
(* and status lookups before, between and after them.  The two forms list  *)
(* sizes, pizza types and labels in orders that are neither sorted nor the *)
(* reverse of each other, and share labels between items and orders.  All  *)
(* identifiers are generated within one millisecond.                       *)
(***************************************************************************)
PairForms ==
  { Form("Al", << "Small", "Large" >>, << "Pepperoni", "Margherita" >>,
         << "Thin", "" >>, << "well done", "" >>,
         << << "1", ":", "Mozzarella" >>, << "0", ":", "Pepperoni" >>,
            << "1", ":", "Basil" >>, << "0", ":", "Corn" >>,
            << "1", ":", "Anchovies" >> >>,
         << "Vegan", "Halal" >>, << "Soy", "Eggs" >>),
    Form("Bo", << "Large", "Family", "Small" >>,
         << "Margherita", "Make Your Own", "Margherita" >>,
         << >>, << "", "no basil" >>,
         << << "2", ":", "Corn" >>, << "2", ":", "Basil" >> >>,
         << "Halal", "Kosher", "Vegan" >>, << "Eggs" >>) }

PairNext ==
  \/ \E p \in OrderHandlers, f \in PairForms : HandleNewOrder(p, f)
  \/ \E p \in OrderHandlers : Hook(p, 0)
  \/ \E p \in OrderHandlers : Insert(p)
  \/ \E p \in OrderHandlers : Commit(p)
  \/ \E p \in StatusHandlers, id \in ProbeIds : serveCustomer(p, id, "none")

PairSpec == Init /\ [][PairNext]_vars

(***************************************************************************)
(* Properties.                                                             *)
(***************************************************************************)
NoDuplicates(s) == \A i, j \in 1..Len(s) : i # j => s[i] # s[j]

IdList(rows) == [ k \in 1..Len(rows) |-> rows[k].ID ]

CreatedIds == { c.id : c \in created }

\* C1: CreateOrder is all-or-nothing.  Of a CreateOrder call that failed, at
\* whatever statement, no row it had written is in any table in any later
\* state, and GetOrder for the identifier it had given its order returns
\* not-found.
C1_AllOrNothing ==
  \A c \in failed :
    /\ \A t \in Tables : IdsOf(db[t]) \cap c.rows = { }
    /\ c.id # NoId => GetOrder(db, c.id, "none").err = ErrRecordNotFound

\* A call failed after its header, item and junction-row inserts, and another
\* call's order is in the store.
C1_Witness ==
  \E c \in failed : Cardinality(c.rows) >= 3 /\ c.id # NoId /\ db.orders # << >>

\* C2: after a successful CreateOrder, GetOrder of the returned identifier
\* succeeds with as many items as the order had, and every item with as many
\* topping, dietary-requirement and allergy rows as the item had (after
\* default substitution).
C2_CountsPreserved ==
  \A c \in created :
    LET got == GetOrder(db, c.id, "none") IN
      /\ got.err = ErrNil
      /\ Len(got.order.Items) = Len(c.order.Items)
      /\ \A i \in 1..Len(c.order.Items) :
           /\ Len(got.order.Items[i].Toppings) = Len(c.order.Items[i].Toppings)
           /\ Len(got.order.Items[i].DietaryRequirement)
                = Len(c.order.Items[i].DietaryRequirement)
           /\ Len(got.order.Items[i].Allergies) = Len(c.order.Items[i].Allergies)

\* Two orders were created, one of two items, one with a row in each junction
\* table.
C2_Witness ==
  /\ \E c \in created : Len(c.order.Items) = 2 /\ Len(c.order.Items[2].Toppings) = 1
  /\ \E c \in created :
       /\ Len(c.order.Items[1].Toppings) = 1
       /\ Len(c.order.Items[1].DietaryRequirement) = 1
       /\ Len(c.order.Items[1].Allergies) = 1

\* C3: create-then-read round trip.  GetOrder of a created order returns the
\* status, customer name, phone and address of the header, of every item the
\* size, pizza type, crust and special instructions, and of every junction
\* row the label (and isExtra of a topping) of the order HandleNewOrder built.
C3_RoundTrip ==
  \A c \in created :
    LET got == GetOrder(db, c.id, "none").order
        o == c.order
    IN /\ got.Status = o.Status
       /\ got.CustomerName = o.CustomerName
       /\ got.Phone = o.Phone
       /\ got.Address = o.Address
       /\ Len(got.Items) = Len(o.Items)
       /\ \A i \in 1..Len(o.Items) :
            LET g == got.Items[i]
                b == o.Items[i]
            IN /\ g.Size = b.Size
               /\ g.Pizza = b.Pizza
               /\ g.Instructions = b.Instructions
               /\ "Crust" \in DOMAIN g
               /\ g.Crust = b.Crust
               /\ Len(g.Toppings) = Len(b.Toppings)
               /\ \A k \in 1..Len(b.Toppings) :
                    /\ g.Toppings[k].Topping = b.Toppings[k].Topping
                    /\ g.Toppings[k].IsExtra = b.Toppings[k].IsExtra
               /\ Len(g.DietaryRequirement) = Len(b.DietaryRequirement)
               /\ \A k \in 1..Len(b.DietaryRequirement) :
                    g.DietaryRequirement[k].DietaryRequirement
                      = b.DietaryRequirement[k].DietaryRequirement
               /\ Len(g.Allergies) = Len(b.Allergies)
               /\ \A k \in 1..Len(b.Allergies) :
                    g.Allergies[k].Allergy = b.Allergies[k].Allergy

\* The topping selection the request yields for item i (Go index): the names
\* of the entries "i:name" that survive parsing, in request order.
SelectionOf(f, i) == MapGet(toppingsMap(f), i)

ToppingLabels(it) == [ k \in 1..Len(it.Toppings) |-> it.Toppings[k].Topping ]

\* C4: default substitution.  An item of a known pizza type for which the
\* request yields no topping selection carries exactly the default toppings
\* of its type, in their order, none marked extra; for "Margherita": Tomato
\* Sauce, Mozzarella, Tomatoes, Basil.
C4_DefaultSubstitution ==
  \A p \in OrderHandlers :
    pc[p] = "orders" =>
      \A i \in 0..(Len(order[p].Items) - 1) :
        LET it == order[p].Items[i + 1] IN
          ( Contains(PizzaTypes, it.Pizza) /\ SelectionOf(form[p], i) = << >> ) =>
            /\ ToppingLabels(it) = PizzaDefaultToppings[it.Pizza]
            /\ \A k \in 1..Len(it.Toppings) : it.Toppings[k].IsExtra = FALSE
            /\ it.Pizza = "Margherita" =>
                 ToppingLabels(it) = << "Tomato Sauce", "Mozzarella", "Tomatoes", "Basil" >>

\* A Margherita whose only entries were dropped while parsing got its four
\* defaults.
C4_Witness ==
  \E p \in OrderHandlers :
    /\ pc[p] = "orders"
    /\ form[p].Toppings # << >>
    /\ \E i \in 0..(Len(order[p].Items) - 1) :
         /\ order[p].Items[i + 1].Pizza = "Margherita"
         /\ SelectionOf(form[p], i) = << >>
         /\ Len(order[p].Items[i + 1].Toppings) = 4

RowIdLists ==
  { IdList(db[t]) : t \in Tables }
    \cup { IdList(tx[p][t]) : p \in OrderHandlers, t \in Tables }
    \cup { SelectSeq(IdList(batch[p]), LAMBDA id : id # NoId) : p \in OrderHandlers }

\* C6: identifier uniqueness.  Under every interleaving of the concurrent
\* CreateOrder calls no identifier is generated twice, and the rows of all
\* tables, committed or pending, carry pairwise distinct identifiers.
C6_IdsUnique ==
  /\ NoDuplicates(issued)
  /\ \A l \in RowIdLists : NoDuplicates(l)
  /\ \A l1, l2 \in RowIdLists : l1 # l2 => Range(l1) \cap Range(l2) = { }

\* Both handlers are inside CreateOrder with identifiers of the same
\* millisecond, one of them past its item inserts.
C6_Witness ==
  /\ \A p \in OrderHandlers : pc[p] \in InTx /\ TxOrderId(p) # NoId
  /\ \E p \in OrderHandlers : tx[p].items # << >>
  /\ sid.count >= 3

\* C7: for an identifier that no successful CreateOrder has issued, GetOrder
\* returns the not-found condition to its caller and no zero-valued order.
\* (resp[p].err and resp[p].order are what GetOrder returned to serveCustomer.)
C7_NotFoundNoZeroOrder ==
  \A p \in StatusHandlers :
    ( pc[p] = "done" /\ resp[p].id \notin CreatedIds /\ resp[p].err # ErrStorage ) =>
      /\ resp[p].err = ErrRecordNotFound
      /\ resp[p].order # ZeroOrder

\* C8: a storage failure of the status lookup is answered with an internal
\* error, and "Order Not Found" only when no order has the identifier.
C8_StorageFailureDistinct ==
  \A p \in StatusHandlers :
    pc[p] = "done" =>
      /\ resp[p].err = ErrStorage => resp[p].status = StatusInternalServerError
      /\ resp[p].body = "Order Not Found" => ~resp[p].existed

\* C9: a submission that fails binding is answered with an error in the
\* same step, CreateOrder is not called and no table or transaction changes;
\* only bound forms are ever inside CreateOrder.
C9_ValidationNeverPersists ==
  /\ [](\A p \in OrderHandlers : pc[p] \in InTx => ShouldBind(form[p]))
  /\ [][ \A p \in OrderHandlers :
           ( pc[p] = "idle" /\ pc'[p] # "idle" /\ ~ShouldBind(form'[p]) ) =>
             /\ resp'[p].status = StatusBadRequest
             /\ pc'[p] = "done"
             /\ db' = db /\ tx' = tx /\ batch' = batch /\ created' = created ]_vars

\* A submission was rejected by binding while the other handler's order was
\* created.
C9_Witness ==
  \E p \in OrderHandlers :
    /\ pc[p] = "done"
    /\ resp[p].status = StatusBadRequest
    /\ ~ShouldBind(form[p])
    /\ db.orders # << >>

\* C10: every topping row's label is in the union of the topping-category
\* lists, every dietary-requirement row's label in DietaryRequirements and
\* every allergy row's label in Allergies.
C10_LabelsInVocabulary ==
  /\ \A k \in 1..Len(db.toppings) : ValidTopping(db.toppings[k].Topping)
  /\ \A k \in 1..Len(db.dietary) :
       Contains(DietaryRequirements, db.dietary[k].DietaryRequirement)
  /\ \A k \in 1..Len(db.allergies) : Contains(Allergies, db.allergies[k].Allergy)

\* The sizes and pizza types of a sequence of items are in the vocabularies.
ItemsInVocabulary(rows) ==
  \A k \in 1..Len(rows) :
    rows[k].Size \in Range(PizzaSizes) /\ rows[k].Pizza \in Range(PizzaTypes)

FormInVocabulary(f) ==
  /\ \A k \in 1..Len(f.Sizes) : f.Sizes[k] \in Range(PizzaSizes)
  /\ \A k \in 1..Len(f.PizzaTypes) : f.PizzaTypes[k] \in Range(PizzaTypes)

C12_StatusInvariant ==
  /\ \A p \in OrderHandlers : pc[p] \in InTx => order[p].Status = OrderStatusPlaced
  /\ \A c \in created : c.order.Status = OrderStatusPlaced
  /\ \A p \in OrderHandlers : \A k \in 1..Len(tx[p].orders) :
       tx[p].orders[k].Status = OrderStatusPlaced
  /\ \A k \in 1..Len(db.orders) :
       /\ db.orders[k].Status \in Range(OrderStatuses)
       /\ GetOrder(db, db.orders[k].ID, "none").order.Status = db.orders[k].Status
  /\ \A p \in StatusHandlers :
       ( pc[p] = "done" /\ resp[p].status = StatusOK ) =>
         \E k \in 1..Len(db.orders) :
           db.orders[k].ID = resp[p].id /\ db.orders[k].Status = resp[p].order.Status

\* The status page of a created order has been served with its status.
C12_Witness ==
  \E p \in StatusHandlers :
    /\ pc[p] = "done"
    /\ resp[p].status = StatusOK
    /\ resp[p].id \in CreatedIds
    /\ resp[p].order.Status = OrderStatusPlaced

ItemRowsOf(dbv, orderId) == RowsWhere(dbv.items, "OrderID", orderId)

\* C13: every successfully created order has at least one item: the order
\* HandleNewOrder hands to CreateOrder, every committed order row, and the
\* order GetOrder returns for it.
C13_NonEmptyOrder ==
  /\ \A p \in OrderHandlers : pc[p] \in InTx => Len(order[p].Items) >= 1
  /\ \A c \in created : Len(c.order.Items) >= 1
  /\ \A k \in 1..Len(db.orders) :
       /\ Len(ItemRowsOf(db, db.orders[k].ID)) >= 1
       /\ Len(GetOrder(db, db.orders[k].ID, "none").order.Items) >= 1

\* An order of one item has been created.
C13_Witness ==
  /\ Len(db.orders) = 1
  /\ Len(ItemRowsOf(db, db.orders[1].ID)) = 1
  /\ \E c \in created : c.id = db.orders[1].ID /\ Len(c.order.Items) = 1

\* What of an item is given to CreateOrder and stored: size, pizza type,
\* instructions and, in order, the labels of its three collections.
ItemContent(it) ==
  [ Size |-> it.Size, Pizza |-> it.Pizza, Instructions |-> it.Instructions,
    Toppings |-> [ k \in 1..Len(it.Toppings) |->
                   << it.Toppings[k].Topping, it.Toppings[k].IsExtra >> ],
    DietaryRequirement |-> [ k \in 1..Len(it.DietaryRequirement) |->
                             it.DietaryRequirement[k].DietaryRequirement ],
    Allergies |-> [ k \in 1..Len(it.Allergies) |-> it.Allergies[k].Allergy ] ]

ItemContents(o) == [ k \in 1..Len(o.Items) |-> ItemContent(o.Items[k]) ]

\* C14: ordering is preserved on read.  For every created order GetOrder
\* returns the items in the order given to CreateOrder and, within every
\* item, the topping, dietary-requirement and allergy rows in insertion
\* order, whatever other orders were created before, after or concurrently;
\* so does the order a status lookup received.
C14_OrderPreserved ==
  /\ \A c \in created :
       ItemContents(GetOrder(db, c.id, "none").order) = ItemContents(c.order)
  /\ \A p \in StatusHandlers :
       ( pc[p] = "done" /\ resp[p].status = StatusOK ) =>
         \A c \in created : c.id = resp[p].id =>
           ItemContents(resp[p].order) = ItemContents(c.order)

\* Both orders are created, the three-item one first, and the status lookup
\* has read the other, whose second item has three toppings.
C14_Witness ==
  /\ Cardinality(created) = 2
  /\ Len(ItemRowsOf(db, db.orders[1].ID)) = 3
  /\ \E p \in StatusHandlers :
       /\ pc[p] = "done"
       /\ resp[p].status = StatusOK
       /\ resp[p].id = db.orders[2].ID
       /\ Len(resp[p].order.Items) = 2
       /\ Len(resp[p].order.Items[2].Toppings) = 3

JunctionTables == { "dietary", "toppings", "allergies" }

\* How many rows of a sequence carry the identifier.
CountId(rows, id) == Cardinality({ k \in 1..Len(rows) : rows[k].ID = id })

\* The identifiers of all rows GetOrder returns for an order identifier.
ReadIds(dbv, id) ==
  LET got == GetOrder(dbv, id, "none").order IN
    { got.ID } \cup IdsOf(got.Items)
      \cup UNION { IdsOf(got.Items[i].Toppings) \cup IdsOf(got.Items[i].DietaryRequirement)
                     \cup IdsOf(got.Items[i].Allergies) : i \in 1..Len(got.Items) }

\* C15: concurrent creations do not interfere.  Every item row references
\* exactly one order row and every junction row exactly one item row; the
\* pending rows of a CreateOrder reference the order and the items of that
\* same call; GetOrder of a created order returns the items and junction
\* rows it was created with, all carrying its keys; no row is returned for
\* two orders, and every committed row is returned for one.
C15_NoInterference ==
  /\ \A k \in 1..Len(db.items) : CountId(db.orders, db.items[k].OrderID) = 1
  /\ \A t \in JunctionTables : \A k \in 1..Len(db[t]) :
       CountId(db.items, db[t][k].OrderItemID) = 1
  /\ \A p \in OrderHandlers :
       /\ \A k \in 1..Len(tx[p].items) : tx[p].items[k].OrderID = TxOrderId(p)
       /\ \A t \in JunctionTables : \A k \in 1..Len(tx[p][t]) :
            CountId(tx[p].items, tx[p][t][k].OrderItemID) = 1
  /\ \A c \in created :
       LET got == GetOrder(db, c.id, "none").order IN
         /\ ItemContents(got) = ItemContents(c.order)
         /\ \A i \in 1..Len(got.Items) :
              /\ got.Items[i].OrderID = c.id
              /\ \A f \in { "Toppings", "DietaryRequirement", "Allergies" } :
                   \A k \in 1..Len(got.Items[i][f]) :
                     got.Items[i][f][k].OrderItemID = got.Items[i].ID
  /\ \A c1, c2 \in created : c1.id # c2.id => ReadIds(db, c1.id) \cap ReadIds(db, c2.id) = { }
  /\ UNION { IdsOf(db[t]) : t \in Tables } = UNION { ReadIds(db, c.id) : c \in created }

PositionIn(s, v) == CHOOSE k \in 1..Len(s) : s[k] = v

\* Two orders are created, and the one committed first got its identifier
\* after the other: the two CreateOrder calls overlapped.
C15_Witness ==
  /\ Cardinality(created) = 2
  /\ Len(db.orders) = 2
  /\ Len(db.items) = 3
  /\ PositionIn(issued, db.orders[1].ID) > PositionIn(issued, db.orders[2].ID)

\* Every table is queried exactly once.
OneQueryPerTable(queries) ==
  /\ Len(queries) = 5
  /\ Range(queries) = Tables

\* C16: no N+1 reads.  A GetOrder that returns an order has sent five
\* queries, one per table (orders, items, toppings, dietary requirements,
\* allergies), whatever the number of items and junction rows of the order;
\* no GetOrder sends more.
C16_NoNPlusOne ==
  /\ \A c \in created : OneQueryPerTable(GetOrder(db, c.id, "none").queries)
  /\ \A id \in ProbeIds, fault \in Faults : Len(GetOrder(db, id, fault).queries) <= 5
  /\ \A p \in StatusHandlers :
       pc[p] = "done" =>
         /\ Len(resp[p].queries) <= 5
         /\ resp[p].status = StatusOK => OneQueryPerTable(resp[p].queries)

\* A lookup of the order of three items, with six topping rows, and the
\* order of two items is in the tables as well.
C16_Witness ==
  /\ Cardinality(created) = 2
  /\ \E p \in StatusHandlers :
       /\ pc[p] = "done"
       /\ resp[p].status = StatusOK
       /\ Len(resp[p].order.Items) = 3
       /\ Len(resp[p].order.Items[1].Toppings) + Len(resp[p].order.Items[3].Toppings) = 6
       /\ Len(resp[p].queries) = 5

\* C17: every submission that passes binding, whatever the lengths of its
\* size list and pizza-type list, reaches CreateOrder with exactly one item
\* per size entry, item i with Sizes[i] and PizzaTypes[i]; the handler does
\* not fail on an accepted submission before persistence.
C17_OneItemPerSize ==
  \A p \in OrderHandlers :
    ( pc[p] # "idle" /\ ShouldBind(form[p]) ) =>
      /\ pc[p] = "orders"
      /\ resp[p] = NoResp
      /\ Len(order[p].Items) = Len(form[p].Sizes)
      /\ \A i \in 1..Len(form[p].Sizes) :
           /\ order[p].Items[i].Size = form[p].Sizes[i]
           /\ order[p].Items[i].Pizza = form[p].PizzaTypes[i]

\* C18: the reference tables are consistent.  Every pizza type of an
\* accepted submission has an entry in PizzaDefaultToppings whose toppings
\* are all in the union of the topping-category lists, so every topping row
\* that default substitution produced carries a label the topping validator
\* accepts.
C18_TablesConsistent ==
  \A p \in OrderHandlers :
    pc[p] = "orders" =>
      \A i \in 0..(Len(order[p].Items) - 1) :
        LET it == order[p].Items[i + 1] IN
          /\ it.Pizza \in Range(PizzaTypes)
          /\ it.Pizza \in DOMAIN PizzaDefaultToppings
          /\ \A k \in 1..Len(PizzaDefaultToppings[it.Pizza]) :
               ValidTopping(PizzaDefaultToppings[it.Pizza][k])
          /\ SelectionOf(form[p], i) = << >> =>
               \A k \in 1..Len(it.Toppings) : ValidTopping(it.Toppings[k].Topping)

\* The decimal numerals the requests use for a Go index j: plain, with a
\* leading zero, with a plus sign.
IndexNumerals(j) == { ToString(j), "0" \o ToString(j), "+" \o ToString(j) }

\* Entry e reads "i:name" with i a numeral of j: the text before its first
\* colon is a numeral of j.
EntryNamesItem(e, j) ==
  \E k \in 1..Len(e) :
    /\ e[k] = ":"
    /\ \A m \in 1..(k - 1) : e[m] # ":"
    /\ Join(SubSeq(e, 1, k - 1)) \in IndexNumerals(j)

\* The text of an entry after its first colon.
EntryName(e) ==
  LET k == CHOOSE n \in 1..Len(e) : e[n] = ":" /\ \A m \in 1..(n - 1) : e[m] # ":"
  IN Join(SubSeq(e, k + 1, Len(e)))

\* The names of the entries of the request that name item j, in request order.
EntriesFor(f, j) ==
  LET mine == SelectSeq(f.Toppings, LAMBDA e : EntryNamesItem(e, j))
  IN [ k \in 1..Len(mine) |-> EntryName(mine[k]) ]

DietaryLabels(it) ==
  [ k \in 1..Len(it.DietaryRequirement) |-> it.DietaryRequirement[k].DietaryRequirement ]

AllergyLabels(it) == [ k \in 1..Len(it.Allergies) |-> it.Allergies[k].Allergy ]

\* C19: per-item attachment.  The topping rows of item j come from the
\* entries "j:name" of the request and from no other entry (entries without
\* a colon, with a non-numeric index or with the index of another or of no
\* item contribute to no row of item j; an item no entry names gets the
\* defaults of its type); the dietary-requirement list and the allergy list
\* of the request are attached in full, in request order, to every item.
C19_PerItemAttachment ==
  \A p \in OrderHandlers :
    pc[p] = "orders" =>
      \A j \in 0..(Len(order[p].Items) - 1) :
        LET it == order[p].Items[j + 1]
            mine == EntriesFor(form[p], j)
        IN /\ ToppingLabels(it) = ( IF mine # << >> THEN mine ELSE DefaultToppingsOf(it.Pizza) )
           /\ DietaryLabels(it) = form[p].DietaryRequirements
           /\ AllergyLabels(it) = form[p].Allergies
           /\ DietaryLabels(it) = DietaryLabels(order[p].Items[1])
           /\ AllergyLabels(it) = AllergyLabels(order[p].Items[1])

\* Two items, a request whose entries name item 1, item 0, no item (no
\* colon, a non-numeric index, the index 5), and two dietary requirements.
C19_Witness ==
  \E p \in OrderHandlers :
    /\ pc[p] = "orders"
    /\ Len(order[p].Items) = 2
    /\ Len(form[p].Toppings) = 6
    /\ ToppingLabels(order[p].Items[1]) = << "Feta" >>
    /\ ToppingLabels(order[p].Items[2]) = << "Basil", "Ham" >>
    /\ DietaryLabels(order[p].Items[2]) = << "Vegan", "Paleo" >>

====
